---- MODULE Spec2Model ----
(***************************************************************************)
(* A model of deepSM/SMDataset.py: the windowed sample index SMDataset     *)
(* (__init__, __len__, __getitem__) and its persistence (save, load).      *)
(*                                                                         *)
(* Conventions of the model                                                *)
(*  - An optional Python value is a record with a flag, so that every      *)
(*    field keeps one type: chunk_size None is [is_none |-> TRUE, n |-> 0].*)
(*  - The feature tensor [channel, frame, freq_bin] is a record holding    *)
(*    the two fixed axis lengths and, per frame, one value that stands for *)
(*    the [channel, freq_bin] slab of that frame.                          *)
(*  - A tensor returned by __getitem__ carries its axis names and shape,   *)
(*    so that unfold, transpose and squeeze act on them as torch does.     *)
(*  - A prediction tensor is its raw array plus the number of times the    *)
(*    logistic transform has been applied to it elementwise.               *)
(*  - A Python exception is the status of the call that raised it.         *)
(***************************************************************************)
EXTENDS Integers, Sequences, FiniteSets, TLC

VARIABLES
    index,  \* the SMDataset object in hand (NoIndex before the first one)
    ctor,   \* the arguments its constructor was given
    dirs,   \* the directories that exist
    files,  \* the container files that exist, with their contents
    saved,  \* the latest successful save of an index built or loaded since
            \* the last constructor call: its arguments and what it persisted
    last    \* the last call: its arguments, status and result

vars == <<index, ctor, dirs, files, saved, last>>

-----------------------------------------------------------------------------
(* Bounds of the model.                                                    *)

MaxFrames == 4

MaxContext == 2

MaxChunk == 2

MaxDiffs == 2

MaxSigmoid == 2

NumChannels == 2

NumBins == 3

-----------------------------------------------------------------------------
(* Python and numpy/torch primitives used by the source.                   *)

Min(a, b) == IF a < b THEN a ELSE b

Max(a, b) == IF a > b THEN a ELSE b

\* Python's a // b: floor division, for either sign of b (b # 0).
PyFloorDiv(a, b) == IF b > 0 THEN a \div b ELSE (-a) \div (-b)

\* Python's a % b: the remainder takes the sign of b (b # 0).
PyMod(a, b) == a - b * PyFloorDiv(a, b)

\* Whether i indexes a Python list / numpy axis of length n (negatives wrap).
PyIndexOk(i, n) == (-n <= i) /\ (i < n)

\* The 1-based position of Python index i in a sequence of length n.
PyPos(i, n) == IF i < 0 THEN i + n + 1 ELSE i + 1

\* A bound of slice(start, stop) clamped to an axis of length n.
PyClamp(i, n) == IF i < 0 THEN Max(i + n, 0) ELSE Min(i, n)

\* seq[start:stop] with Python's slice semantics.
PySlice(seq, start, stop) ==
    LET a == PyClamp(start, Len(seq))
        b == PyClamp(stop, Len(seq))
    IN  IF b > a THEN SubSeq(seq, a + 1, b) ELSE <<>>

Some(n) == [is_none |-> FALSE, n |-> n]

None == [is_none |-> TRUE, n |-> 0]

NoPredictions == [present |-> FALSE, raw |-> <<>>, sigmoids |-> 0]

\* 1 / (1 + np.exp(-x)), elementwise: one more application of the transform.
Sigmoid(p) == [p EXCEPT !.sigmoids = @ + 1]

\* torch.Tensor.transpose(i, j) on 0-based dimensions.
Transpose(t, i, j) ==
    LET swap(s) == [k \in 1..Len(s) |->
                      IF k = i + 1 THEN s[j + 1]
                      ELSE IF k = j + 1 THEN s[i + 1] ELSE s[k]]
    IN  [t EXCEPT !.axes = swap(t.axes), !.shape = swap(t.shape)]

\* Removing position p (1-based) of a sequence.
DropAt(s, p) == SubSeq(s, 1, p - 1) \o SubSeq(s, p + 1, Len(s))

\* torch.squeeze(t, dim): drops dimension dim only when its size is 1.
Squeeze(t, dim) ==
    IF t.shape[dim + 1] = 1
    THEN [t EXCEPT !.axes = DropAt(t.axes, dim + 1),
                   !.shape = DropAt(t.shape, dim + 1)]
    ELSE t

-----------------------------------------------------------------------------
(* utils.difficulties: difficulty name -> code 0..4.                       *)

Beginner == <<"B", "e", "g", "i", "n", "n", "e", "r">>

Easy == <<"E", "a", "s", "y">>

Medium == <<"M", "e", "d", "i", "u", "m">>

Hard == <<"H", "a", "r", "d">>

Challenge == <<"C", "h", "a", "l", "l", "e", "n", "g", "e">>

difficulties ==
    [d \in {Beginner, Easy, Medium, Hard, Challenge} |->
        CASE d = Beginner -> 0
          [] d = Easy -> 1
          [] d = Medium -> 2
          [] d = Hard -> 3
          [] d = Challenge -> 4]

NumDifficultyCodes == 5

OneHot(code) == [c \in 1..NumDifficultyCodes |-> IF c = code + 1 THEN 1 ELSE 0]

-----------------------------------------------------------------------------
(* SMDataset.__init__                                                      *)

\* A variant of ResolveChunkSize taking the context off one side only in mode -1.
ResolveChunkSizeOneSided(chunk_size, N_frames, context_size) ==
    IF chunk_size.is_none
    THEN [ok |-> TRUE, conv |-> TRUE, chunk_size |-> 1]
    ELSE IF chunk_size.n > 0
    THEN [ok |-> TRUE, conv |-> FALSE, chunk_size |-> chunk_size.n]
    ELSE IF chunk_size.n = -1
    THEN [ok |-> TRUE, conv |-> FALSE, chunk_size |-> N_frames - context_size]
    ELSE [ok |-> FALSE, conv |-> FALSE, chunk_size |-> 0]

\* Lines 59-73: the chunk-size modes. ok = FALSE is the ValueError.
ResolveChunkSize(chunk_size, N_frames, context_size) ==
    IF chunk_size.is_none
    THEN [ok |-> TRUE, conv |-> TRUE, chunk_size |-> 1]
    ELSE IF chunk_size.n > 0
    THEN [ok |-> TRUE, conv |-> FALSE, chunk_size |-> chunk_size.n]
    ELSE IF chunk_size.n = -1
    THEN [ok |-> TRUE, conv |-> FALSE,
          chunk_size |-> N_frames - context_size * 2]
    ELSE [ok |-> FALSE, conv |-> FALSE, chunk_size |-> 0]

\* A variant of SampleLength that leaves out the + 1.
SampleLengthNoPlusOne(N_frames, chunk_size, context_size) ==
    N_frames - chunk_size - context_size * 2

\* Lines 77-78.
SampleLength(N_frames, chunk_size, context_size) ==
    N_frames - chunk_size - context_size * 2 + 1

\* Lines 47-53.
InitPredictions(step_predictions) ==
    IF step_predictions.present THEN Sigmoid(step_predictions)
    ELSE NoPredictions

NoIndex ==
    [built |-> FALSE, song_name |-> "", fft_features |-> <<>>,
     step_pos_labels |-> <<>>, step_type_labels |-> <<>>, diffs |-> <<>>,
     step_predictions |-> NoPredictions, N_frames |-> 0, context_size |-> 0,
     conv |-> FALSE, chunk_size |-> 0, sample_length |-> 0]

\* The constructor: the new object, or status "ValueError" and no object.
SMDataset_init(song_name, fft_features, step_pos_labels, step_type_labels, diffs, chunk_size, context_size, step_predictions) ==
    LET N_frames == Len(fft_features.frames)
        r == ResolveChunkSize(chunk_size, N_frames, context_size)
    IN  IF ~r.ok
        THEN [status |-> "ValueError", self |-> NoIndex]
        ELSE [status |-> "ok",
              self |->
                [built |-> TRUE,
                 song_name |-> song_name,
                 fft_features |-> fft_features,
                 step_pos_labels |-> step_pos_labels,
                 step_type_labels |-> step_type_labels,
                 diffs |-> diffs,
                 step_predictions |-> InitPredictions(step_predictions),
                 N_frames |-> N_frames,
                 context_size |-> context_size,
                 conv |-> r.conv,
                 chunk_size |-> r.chunk_size,
                 sample_length |->
                    SampleLength(N_frames, r.chunk_size, context_size)]]

-----------------------------------------------------------------------------
(* SMDataset.__len__                                                       *)

SMDataset_len(self) == Len(self.diffs) * self.sample_length

-----------------------------------------------------------------------------
(* SMDataset.__getitem__                                                   *)

\* A variant of FftSlice that reads one frame too many.
FftSliceOneMore(frame_idx, chunk_size, window_size) ==
    [start |-> frame_idx, stop |-> frame_idx + chunk_size + window_size]

\* Line 102: slice(start, stop) of the frame axis of the feature tensor.
FftSlice(frame_idx, chunk_size, window_size) ==
    [start |-> frame_idx, stop |-> frame_idx + chunk_size + window_size - 1]

\* A variant of WindowSlice that starts at the window's first frame, not its centre.
WindowSliceNoContext(frame_idx, chunk_size, context_size) ==
    [start |-> frame_idx, stop |-> frame_idx + chunk_size]

\* Lines 103-104: slice(start, stop) of the frame axis of the labels.
WindowSlice(frame_idx, chunk_size, context_size) ==
    [start |-> frame_idx + context_size,
     stop |-> frame_idx + context_size + chunk_size]

\* Line 108: Tensor.unfold(1, window_size, 1) of a [channel, frame, freq]
\* tensor holding the given frames; needs window_size <= number of frames.
Unfold(channels, bins, frames, window_size) ==
    LET n == Len(frames) - window_size + 1
    IN  [axes |-> <<"channel", "chunk", "freq", "window">>,
         shape |-> <<channels, n, bins, window_size>>,
         data |-> [k \in 1..n |-> [j \in 1..window_size |-> frames[k + j - 1]]]]

NoTensor == [axes |-> <<>>, shape |-> <<>>, data |-> <<>>]

NoSample ==
    [keys |-> {}, fft_features |-> NoTensor, diff |-> <<>>,
     step_pos_labels |-> <<>>, step_type_labels |-> <<>>,
     step_predictions |-> NoPredictions]

Raise(e) == [status |-> e, res |-> NoSample]

\* Line 112-113: np.zeros((chunk_size, 5)) with column diff_code set to 1.
DiffMtx(chunk_size, diff_code) == [k \in 1..chunk_size |-> OneHot(diff_code)]

\* ndarray.reshape(-1) of a 2-axis array: its rows one after the other.
RECURSIVE Flatten(_)
Flatten(rows) ==
    IF rows = <<>> THEN <<>> ELSE Head(rows) \o Flatten(Tail(rows))

SMDataset_getitem(self, idx) ==
    IF self.sample_length = 0 THEN Raise("ZeroDivisionError")
    ELSE
    LET diff_idx == PyFloorDiv(idx, self.sample_length)
        frame_idx == PyMod(idx, self.sample_length)
    IN  IF ~PyIndexOk(diff_idx, Len(self.diffs)) THEN Raise("IndexError")
        ELSE
        LET diff == self.diffs[PyPos(diff_idx, Len(self.diffs))]
        IN  IF diff \notin DOMAIN difficulties THEN Raise("KeyError")
            ELSE
            LET diff_code == difficulties[diff]
                window_size == self.context_size * 2 + 1
                fft_slice ==
                    FftSlice(frame_idx, self.chunk_size, window_size)
                window_slice ==
                    WindowSlice(frame_idx, self.chunk_size, self.context_size)
                feature_window ==
                    PySlice(self.fft_features.frames,
                            fft_slice.start, fft_slice.stop)
            IN  IF Len(feature_window) < window_size
                THEN Raise("RuntimeError")
                ELSE
                LET fft_features ==
                        Transpose(
                          Transpose(
                            Unfold(self.fft_features.channels,
                                   self.fft_features.bins,
                                   feature_window, window_size),
                            2, 3),
                          0, 1)
                IN  IF self.chunk_size < 0 THEN Raise("ValueError")
                    ELSE IF ~PyIndexOk(diff_idx, Len(self.step_pos_labels))
                           \/ ~PyIndexOk(diff_idx, Len(self.step_type_labels))
                    THEN Raise("IndexError")
                    ELSE
                    LET diff_mtx == DiffMtx(self.chunk_size, diff_code)
                        row == PyPos(diff_idx, Len(self.step_pos_labels))
                        step_pos_labels ==
                            PySlice(self.step_pos_labels[row],
                                    window_slice.start, window_slice.stop)
                        step_type_labels ==
                            PySlice(self.step_type_labels[row],
                                    window_slice.start, window_slice.stop)
                    IN  IF self.conv
                        THEN [status |-> "ok",
                              res |->
                                [keys |-> {"fft_features", "diff",
                                           "step_pos_labels"},
                                 fft_features |-> Squeeze(fft_features, 0),
                                 diff |-> Flatten(diff_mtx),
                                 step_pos_labels |-> step_pos_labels,
                                 step_type_labels |-> <<>>,
                                 step_predictions |-> NoPredictions]]
                        ELSE IF self.step_predictions.present
                        THEN [status |-> "ok",
                              res |->
                                [keys |-> {"fft_features", "diff",
                                           "step_pos_labels",
                                           "step_type_labels",
                                           "step_predictions"},
                                 fft_features |-> fft_features,
                                 diff |-> diff_mtx,
                                 step_pos_labels |-> step_pos_labels,
                                 step_type_labels |-> step_type_labels,
                                 step_predictions |->
                                    [self.step_predictions EXCEPT !.raw =
                                       PySlice(@[row], window_slice.start,
                                               window_slice.stop)]]]
                        ELSE [status |-> "ok",
                              res |->
                                [keys |-> {"fft_features", "diff",
                                           "step_pos_labels",
                                           "step_type_labels"},
                                 fft_features |-> fft_features,
                                 diff |-> diff_mtx,
                                 step_pos_labels |-> step_pos_labels,
                                 step_type_labels |-> step_type_labels,
                                 step_predictions |-> NoPredictions]]

-----------------------------------------------------------------------------
(* Inputs: the tensors of one song. Every label array has one row per      *)
(* difficulty and one entry per frame of the feature tensor. Each entry    *)
(* holds a value of its own, so that a window tells which frames and which *)
(* row it was cut from.                                                    *)

\* fft_features [channel, frame, freq_bin] with N frames.
FeatureTensor(N) ==
    [channels |-> NumChannels, bins |-> NumBins, frames |-> [i \in 1..N |-> i]]

\* step_pos_labels [num_diffs, frame].
PosLabels(nd, N) == [d \in 1..nd |-> [i \in 1..N |-> 100 * d + i]]

\* step_type_labels [num_diffs, frame, step_type]: one value per row [d, i, :].
TypeLabels(nd, N) == [d \in 1..nd |-> [i \in 1..N |-> 1000 + 100 * d + i]]

\* step_predictions [num_diffs, frame], raw (pre-logistic) values.
RawPredictions(nd, N) ==
    [present |-> TRUE,
     raw |-> [d \in 1..nd |-> [i \in 1..N |-> 10 * d + i - 12]],
     sigmoids |-> 0]

\* The difficulty lists: 1..MaxDiffs distinct names of the table, in any order.
DiffLists ==
    {l \in UNION {[1..n -> {Easy, Hard, Challenge}] : n \in 1..MaxDiffs} :
        \A i, j \in DOMAIN l : l[i] = l[j] => i = j}

\* The chunk_size arguments: None, -1, N > 0, and the invalid 0 and -2.
ChunkSizes == {None} \cup {Some(n) : n \in -2..MaxChunk}

ContextSizes == 0..MaxContext

FrameCounts == 1..MaxFrames

-----------------------------------------------------------------------------
(* The state machine.                                                      *)

NoPath == [dir |-> <<>>, stem |-> "", ext |-> ""]

NoArgs == [chunk_size |-> None, context_size |-> 0, step_predictions |-> NoPredictions]

NoCall ==
    [op |-> "none", status |-> "ok", idx |-> 0, value |-> 0,
     res |-> NoSample, dataset_name |-> "", base_path |-> <<>>,
     fname |-> "", explicit |-> FALSE, path |-> NoPath,
     chunk_size |-> None, context_size |-> None]

\* What save persists of an index, and load hands to the constructor.
Tensors(self) ==
    [song_name |-> self.song_name, diffs |-> self.diffs,
     context_size |-> self.context_size,
     fft_features |-> self.fft_features,
     step_pos_labels |-> self.step_pos_labels,
     step_type_labels |-> self.step_type_labels,
     step_predictions |-> self.step_predictions]

NoSave ==
    [done |-> FALSE, tensors |-> Tensors(NoIndex), dataset_name |-> "",
     base_path |-> <<>>, song_name |-> "", path |-> NoPath]

\* The state after SMDataset(song_name, ..., step_predictions) ran.
Constructed(song_name, N, diffs, chunk_size, context_size, with_predictions) ==
    LET nd == Len(diffs)
        preds == IF with_predictions THEN RawPredictions(nd, N)
                 ELSE NoPredictions
        r == SMDataset_init(song_name, FeatureTensor(N),
                            PosLabels(nd, N),
                            TypeLabels(nd, N), diffs, chunk_size,
                            context_size, preds)
    IN  [index |-> r.self,
         ctor |-> IF r.status = "ok"
                  THEN [chunk_size |-> chunk_size,
                        context_size |-> context_size,
                        step_predictions |-> preds]
                  ELSE NoArgs,
         last |-> [NoCall EXCEPT !.op = "init", !.status = r.status,
                                 !.chunk_size = chunk_size,
                                 !.context_size = Some(context_size)]]

Init ==
    \E N \in FrameCounts, diffs \in DiffLists,
       chunk_size \in ChunkSizes, context_size \in ContextSizes,
       with_predictions \in BOOLEAN :
        LET c == Constructed("songA", N, diffs, chunk_size,
                             context_size, with_predictions)
        IN  /\ index = c.index
            /\ ctor = c.ctor
            /\ last = c.last
            /\ dirs = {}
            /\ files = {}
            /\ saved = NoSave

Abs(n) == IF n < 0 THEN -n ELSE n

\* The idx arguments tried: the valid ones, and those around both ends.
Indices(self) ==
    LET n == Abs(SMDataset_len(self)) + 1 IN (-n - 1)..n

\* len(dataset) as __len__ returns it.
CallLen ==
    /\ index.built
    /\ last' = [NoCall EXCEPT !.op = "len", !.value = SMDataset_len(index)]
    /\ UNCHANGED <<index, ctor, dirs, files, saved>>

\* dataset[idx].
CallGetItem ==
    /\ index.built
    /\ \E idx \in Indices(index) :
          LET r == SMDataset_getitem(index, idx)
          IN  last' = [NoCall EXCEPT !.op = "getitem", !.idx = idx,
                                     !.status = r.status, !.res = r.res]
    /\ UNCHANGED <<index, ctor, dirs, files, saved>>

Next == CallLen \/ CallGetItem

Spec == Init /\ [][Next]_vars

-----------------------------------------------------------------------------
(* SMDataset.save and load: the container file and its path.              *)
(* A path is its directory (a sequence of components), the file's stem and *)
(* its extension. dirs is the set of directories that exist; files holds   *)
(* one record per container file that exists.                              *)

S10Width == 10

NulByte == [byte |-> "NUL"]

\* A variant of EncodeS10 with a field of 4 bytes.
EncodeS4(name) ==
    [i \in 1..4 |-> IF i <= Len(name) THEN [byte |-> name[i]] ELSE NulByte]

\* Line 163: np.array(..., dtype='S10') of one name: its first 10 characters
\* as bytes, padded with NUL bytes to the width of the field.
EncodeS10(name) ==
    [i \in 1..S10Width |->
        IF i <= Len(name) THEN [byte |-> name[i]] ELSE NulByte]

\* An element read from an 'S10' array comes without its trailing NUL bytes.
RECURSIVE StripNul(_)
StripNul(bytes) ==
    IF bytes # <<>> /\ bytes[Len(bytes)] = NulByte
    THEN StripNul(SubSeq(bytes, 1, Len(bytes) - 1))
    ELSE bytes

\* Line 186: x.decode('ascii').
DecodeAscii(bytes) == [i \in 1..Len(bytes) |-> bytes[i].byte]

\* Lines 151-152: '%s/%s/%s/%s.h5' % (base_path, dataset_name, song_name, song_name).
SavePath(base_path, dataset_name, song_name) ==
    [dir |-> base_path \o <<dataset_name, song_name>>,
     stem |-> song_name, ext |-> "h5"]

\* A variant of LoadPath that follows save's rule.
LoadPathAsSave(base_path, dataset_name, fname) ==
    [dir |-> base_path \o <<dataset_name, fname>>, stem |-> fname, ext |-> "h5"]

\* Line 182: f'{base_path}/datasets/{dataset_name}/{fname}/{fname}.h5'.
LoadPath(base_path, dataset_name, fname) ==
    [dir |-> base_path \o <<"datasets", dataset_name, fname>>,
     stem |-> fname, ext |-> "h5"]

\* Lines 162-172: what save writes into the container.
Container(self) ==
    [song_name |-> self.song_name,
     diffs |-> [i \in DOMAIN self.diffs |-> EncodeS10(self.diffs[i])],
     context_size |-> self.context_size,
     fft_features |-> self.fft_features,
     step_pos_labels |-> self.step_pos_labels,
     step_type_labels |-> self.step_type_labels,
     step_predictions |-> self.step_predictions]

FileExists(fs, path) == \E f \in fs : f.path = path

FileAt(fs, path) == (CHOOSE f \in fs : f.path = path).content

\* h5py.File(path, 'w') and the writes: the file is created or replaced.
WriteFile(fs, path, content) ==
    {f \in fs : f.path # path} \cup {[path |-> path, content |-> content]}

\* self.save(dataset_name, base_path, fname), run on the directories ds and
\* the files fs: its status and the directories and files it leaves.
\* fname.explicit = FALSE is fname=None. os.mkdir (line 155) needs the parent
\* base_path to exist; song_name (line 157) is bound on line 150 only, when
\* fname is None; the file (line 160) is then opened in the directory that
\* line 158 made.
SMDataset_save(self, dataset_name, base_path, fname, ds, fs) ==
    LET path == IF fname.explicit THEN fname.path
                ELSE SavePath(base_path, dataset_name, self.song_name)
        d1 == base_path \o <<dataset_name>>
        d2 == d1 \o <<self.song_name>>
    IN  IF d1 \notin ds /\ base_path \notin ds
        THEN [status |-> "FileNotFoundError", dirs |-> ds, files |-> fs,
              path |-> path]
        ELSE IF fname.explicit
        THEN [status |-> "UnboundLocalError", dirs |-> ds \cup {d1},
              files |-> fs, path |-> path]
        ELSE [status |-> "ok", dirs |-> ds \cup {d1, d2},
              files |-> WriteFile(fs, path, Container(self)), path |-> path]

\* load(fname, dataset_name, chunk_size, base_path, context_size) run on the
\* files fs: its status, the path it opens and the index it returns.
\* Reading an array back (hf[...].value, h5py 2) gives the array written.
load(fname, dataset_name, chunk_size, base_path, context_size, fs) ==
    LET h5name == LoadPath(base_path, dataset_name, fname)
    IN  IF ~FileExists(fs, h5name)
        THEN [status |-> "OSError", path |-> h5name, self |-> NoIndex,
              args |-> NoArgs]
        ELSE
        LET hf == FileAt(fs, h5name)
            diffs == [i \in DOMAIN hf.diffs |->
                        DecodeAscii(StripNul(hf.diffs[i]))]
            ctx == IF context_size.is_none THEN hf.context_size
                   ELSE context_size.n
            r == SMDataset_init(hf.song_name, hf.fft_features,
                                hf.step_pos_labels, hf.step_type_labels,
                                diffs, chunk_size, ctx, hf.step_predictions)
        IN  [status |-> r.status, path |-> h5name, self |-> r.self,
             args |-> [chunk_size |-> chunk_size, context_size |-> ctx,
                       step_predictions |-> hf.step_predictions]]

-----------------------------------------------------------------------------
(* The store's state machine: indexes are built, saved and loaded.         *)

StoreFrames == 1

StoreSongs == {"songA"}

StoreDiffLists == {<<Easy, Challenge>>}

StoreChunkSizes == {None, Some(0)}

StoreContextSizes == {0, 1}

DatasetNames == {"ds"}

\* The storage roots: load's, the one save needs to meet it, and one that
\* does not exist.
BasePaths == {<<"base">>, <<"base", "datasets">>, <<"missing">>}

ExistingDirs == {<<"base">>, <<"base", "datasets">>}

\* The fname arguments of save: None, and a file name of the caller's.
FileNames ==
    {[explicit |-> FALSE, path |-> NoPath],
     [explicit |-> TRUE,
      path |-> [dir |-> <<"base">>, stem |-> "export", ext |-> "h5"]]}

StoreInit ==
    /\ index = NoIndex
    /\ ctor = NoArgs
    /\ last = NoCall
    /\ dirs = ExistingDirs
    /\ files = {}
    /\ saved = NoSave

\* SMDataset(song_name, ..., step_predictions).
Construct ==
    \E song_name \in StoreSongs, diffs \in StoreDiffLists,
       chunk_size \in StoreChunkSizes, context_size \in StoreContextSizes,
       with_predictions \in BOOLEAN :
        LET c == Constructed(song_name, StoreFrames, diffs, chunk_size,
                             context_size, with_predictions)
        IN  /\ index' = IF c.last.status = "ok" THEN c.index ELSE index
            /\ ctor' = IF c.last.status = "ok" THEN c.ctor ELSE ctor
            /\ last' = c.last
            /\ saved' = NoSave
            /\ UNCHANGED <<dirs, files>>

\* index.save(dataset_name, base_path, fname).
CallSave ==
    /\ index.built
    /\ \E dataset_name \in DatasetNames, base_path \in BasePaths,
          fname \in FileNames :
          LET r == SMDataset_save(index, dataset_name, base_path, fname,
                                  dirs, files)
          IN  /\ dirs' = r.dirs
              /\ files' = r.files
              /\ last' = [NoCall EXCEPT !.op = "save", !.status = r.status,
                                        !.dataset_name = dataset_name,
                                        !.base_path = base_path,
                                        !.explicit = fname.explicit,
                                        !.path = r.path]
              /\ saved' = IF r.status = "ok"
                          THEN [done |-> TRUE, tensors |-> Tensors(index),
                                dataset_name |-> dataset_name,
                                base_path |-> base_path,
                                song_name |-> index.song_name,
                                path |-> r.path]
                          ELSE saved
    /\ UNCHANGED <<index, ctor>>

\* index = load(fname, dataset_name, chunk_size, base_path, context_size).
CallLoad ==
    \E fname \in StoreSongs, dataset_name \in DatasetNames,
       chunk_size \in StoreChunkSizes, base_path \in BasePaths,
       context_size \in {None} \cup {Some(c) : c \in StoreContextSizes} :
        LET r == load(fname, dataset_name, chunk_size, base_path,
                      context_size, files)
        IN  /\ r.args.step_predictions.sigmoids < MaxSigmoid
            /\ index' = IF r.status = "ok" THEN r.self ELSE index
            /\ ctor' = IF r.status = "ok" THEN r.args ELSE ctor
            /\ last' = [NoCall EXCEPT !.op = "load", !.status = r.status,
                                      !.dataset_name = dataset_name,
                                      !.base_path = base_path,
                                      !.fname = fname,
                                      !.path = r.path,
                                      !.chunk_size = chunk_size,
                                      !.context_size = context_size]
            /\ UNCHANGED <<dirs, files, saved>>

StoreNext == Construct \/ CallSave \/ CallLoad

StoreSpec == StoreInit /\ [][StoreNext]_vars

-----------------------------------------------------------------------------
(* Properties of the windowed sample index, under Spec.                    *)

\* The chunk size the constructor's chunk_size argument stands for.
ExpectedChunkSize ==
    IF ctor.chunk_size.is_none THEN 1
    ELSE IF ctor.chunk_size.n = -1
    THEN index.N_frames - 2 * ctor.context_size
    ELSE ctor.chunk_size.n

\* idx is in [0, length()).
ValidIdx(idx) == 0 <= idx /\ idx < SMDataset_len(index)

\* The entries along the named axis; an axis squeezed out held one entry.
AxisEntries(t, name) ==
    IF \E k \in DOMAIN t.axes : t.axes[k] = name
    THEN t.shape[CHOOSE k \in DOMAIN t.axes : t.axes[k] = name]
    ELSE 1

\* C1: in each chunk-size mode (None, -1, N > 0), length() equals
\* num_difficulties * (N_frames - chunk_size - 2*context_size + 1), with
\* chunk_size the chunk size the mode resolves to.
C1_LengthFormula ==
    index.built =>
        /\ index.chunk_size = ExpectedChunkSize
        /\ last.op = "len" =>
              last.value = Len(index.diffs)
                 * (index.N_frames - ExpectedChunkSize
                      - 2 * ctor.context_size + 1)

C1_Witness ==
    /\ last.op = "len"
    /\ ~ctor.chunk_size.is_none
    /\ ctor.chunk_size.n = 2
    /\ Len(index.diffs) = 2
    /\ index.context_size = 1
    /\ last.value = 2

\* C7: mode -1 resolves chunk_size to N_frames - 2*context_size and
\* sample_length to 1, so length() is the number of difficulties; for
\* N_frames = 500 and context_size = 7 that is chunk_size 486.
C7_WholeSongMode ==
    (index.built /\ ~ctor.chunk_size.is_none /\ ctor.chunk_size.n = -1) =>
        /\ index.chunk_size = index.N_frames - 2 * index.context_size
        /\ index.sample_length = 1
        /\ last.op = "len" => last.value = Len(index.diffs)
        /\ ResolveChunkSize(Some(-1), 500, 7).chunk_size = 486
        /\ SampleLength(500, 486, 7) = 1

C7_Witness ==
    /\ last.op = "len"
    /\ ~ctor.chunk_size.is_none
    /\ ctor.chunk_size.n = -1
    /\ index.N_frames = 4
    /\ index.context_size = 1
    /\ index.chunk_size = 2
    /\ last.value = 2

\* C5: every index that construction returns has sample_length >= 1
\* (construction fails otherwise).
C5_SampleLengthAtLeastOne == index.built => index.sample_length >= 1

\* C4: on an index with sample_length >= 1 and chunk_size >= 1, get(idx)
\* fails with an index-out-of-range error for every idx outside
\* [0, length()), negative ones included, and get(length()-1) does not fail.
C4_OutOfRangeFails ==
    (last.op = "getitem" /\ index.sample_length >= 1 /\ index.chunk_size >= 1) =>
        /\ ~ValidIdx(last.idx) => last.status = "IndexError"
        /\ last.idx = SMDataset_len(index) - 1 => last.status = "ok"

\* C2 as stated: for every valid idx, in every chunk-size mode (mode -1 on
\* songs with N_frames <= 2*context_size included), get(idx) returns a
\* feature window with chunk_size chunk positions and 2*context_size+1
\* window offsets.
C2_WindowShapeEveryMode ==
    (last.op = "getitem" /\ ValidIdx(last.idx)) =>
        /\ last.status = "ok"
        /\ AxisEntries(last.res.fft_features, "chunk") = index.chunk_size
        /\ AxisEntries(last.res.fft_features, "window")
              = 2 * index.context_size + 1

\* C2, amended: when the resolved chunk_size is at least 1, get(idx) returns
\* for every valid idx a feature window [chunk, channel, window, freq] with
\* chunk_size chunk positions and 2*context_size+1 window offsets; in the
\* convolutional mode the chunk axis, of one entry, is squeezed out.
C2_WindowShape ==
    (last.op = "getitem" /\ ValidIdx(last.idx) /\ index.chunk_size >= 1) =>
        LET t == last.res.fft_features
            w == 2 * index.context_size + 1
        IN  /\ last.status = "ok"
            /\ Len(t.data) = index.chunk_size
            /\ \A k \in DOMAIN t.data : Len(t.data[k]) = w
            /\ IF index.conv
               THEN /\ index.chunk_size = 1
                    /\ t.axes = <<"channel", "window", "freq">>
                    /\ t.shape = <<NumChannels, w, NumBins>>
               ELSE /\ t.axes = <<"chunk", "channel", "window", "freq">>
                    /\ t.shape = <<index.chunk_size, NumChannels, w, NumBins>>

C2_Witness ==
    /\ last.op = "getitem"
    /\ last.status = "ok"
    /\ ValidIdx(last.idx)
    /\ ~ctor.chunk_size.is_none
    /\ ctor.chunk_size.n = -1
    /\ index.chunk_size = 2
    /\ index.context_size = 1
    /\ last.res.fft_features.shape = <<2, NumChannels, 3, NumBins>>

\* The sample the claim C8 describes for difficulty row d (1-based) at
\* frame offset f: what each part of a returned sample must equal.
IsolatedSample(res, d, f) ==
    LET c == index.context_size
        n == index.chunk_size
        code == difficulties[index.diffs[d]]
    IN  /\ res.fft_features.data =
              [k \in 1..n |-> [j \in 1..(2 * c + 1) |->
                  index.fft_features.frames[f + k + j - 1]]]
        /\ res.diff = IF index.conv THEN OneHot(code)
                      ELSE [k \in 1..n |-> OneHot(code)]
        /\ res.step_pos_labels =
              SubSeq(index.step_pos_labels[d], f + c + 1, f + c + n)
        /\ ~index.conv =>
              res.step_type_labels =
                 SubSeq(index.step_type_labels[d], f + c + 1, f + c + n)

\* Valid idx d1*sample_length + f: every other difficulty d2 gets, at the
\* same f, the same feature window, its own indicator and its own labels.
IsolationAt(idx) ==
    LET sl == index.sample_length
        d1 == idx \div sl
        f == idx % sl
    IN  /\ last.status = "ok"
        /\ IsolatedSample(last.res, d1 + 1, f)
        /\ \A d2 \in 0..(Len(index.diffs) - 1) :
              LET r2 == SMDataset_getitem(index, d2 * sl + f)
              IN  /\ r2.status = "ok"
                  /\ r2.res.fft_features = last.res.fft_features
                  /\ IsolatedSample(r2.res, d2 + 1, f)

\* C8 as stated: for any two valid indices d1*sample_length + f and
\* d2*sample_length + f, get returns the same feature window (frames
\* [f, f + chunk_size + 2*context_size)), the one-hot indicator of each
\* difficulty's code, and the label windows [f + context_size,
\* f + context_size + chunk_size) of each difficulty's own rows.
C8_IsolationEveryIndex ==
    (last.op = "getitem" /\ ValidIdx(last.idx) /\ Len(index.diffs) >= 2) =>
        IsolationAt(last.idx)

\* C8, amended: the same, on an index whose resolved chunk_size is at
\* least 1.
C8_DifficultyIsolation ==
    (last.op = "getitem" /\ ValidIdx(last.idx) /\ index.chunk_size >= 1) =>
        IsolationAt(last.idx)

C8_Witness ==
    /\ last.op = "getitem"
    /\ last.status = "ok"
    /\ Len(index.diffs) = 2
    /\ index.diffs[2] = Challenge
    /\ index.sample_length = 2
    /\ last.idx = 3
    /\ index.context_size = 1
    /\ index.chunk_size = 1
    /\ ~index.conv
    /\ last.res.step_pos_labels = <<203>>
    /\ last.res.diff = <<OneHot(4)>>
    /\ last.res.fft_features.data = <<<<2, 3, 4>>>>

-----------------------------------------------------------------------------
(* Properties of the tensor store, under StoreSpec.                        *)

\* The last call was a load for the dataset and song of the latest save.
LoadAfterSave ==
    /\ last.op = "load"
    /\ saved.done
    /\ last.dataset_name = saved.dataset_name
    /\ last.fname = saved.song_name

\* load's storage root is the one save wrote under, less its last
\* component "datasets".
SaveRootIsLoadRootDatasets == saved.base_path = last.base_path \o <<"datasets">>

\* A chunk_size the constructor accepts.
ValidChunkArg(c) == c.is_none \/ c.n > 0 \/ c.n = -1

\* The parts of an index the round trip is claimed for.
RoundTripFields(t) ==
    [song_name |-> t.song_name, diffs |-> t.diffs,
     context_size |-> t.context_size, fft_features |-> t.fft_features,
     step_pos_labels |-> t.step_pos_labels,
     step_type_labels |-> t.step_type_labels]

C6_StoredPredictionsRaw ==
    /\ (last.op = "save" /\ last.status = "ok"
          /\ index.step_predictions.present) =>
          FileAt(files, last.path).step_predictions = ctor.step_predictions
    /\ (LoadAfterSave /\ SaveRootIsLoadRootDatasets /\ last.status = "ok") =>
          index.step_predictions = saved.tensors.step_predictions

\* C10: every save, with or without a file name, creates the directories
\* storage_root/dataset_name and storage_root/dataset_name/song_name and
\* writes the container, or fails on a filesystem error.
C10_SaveCreatesAndWrites ==
    last.op = "save" =>
        \/ last.status = "FileNotFoundError"
        \/ /\ last.status = "ok"
           /\ last.base_path \o <<last.dataset_name>> \in dirs
           /\ last.base_path \o <<last.dataset_name, index.song_name>> \in dirs
           /\ FileExists(files, last.path)
           /\ FileAt(files, last.path).song_name = index.song_name
           /\ FileAt(files, last.path).context_size = index.context_size
           /\ FileAt(files, last.path).fft_features = index.fft_features
           /\ FileAt(files, last.path).step_pos_labels = index.step_pos_labels
           /\ FileAt(files, last.path).step_type_labels
                 = index.step_type_labels

====
